---- MODULE Spec2Model ----
(***************************************************************************)
(* Position lifecycle of the single-symbol trading bot (src/main.py).      *)
(*                                                                         *)
(* The state is the TradingBot object (active_position, orderbook_data,    *)
(* order_response and the two asyncio events), the coroutines that run on  *)
(* the event loop (one /trade handler per command, one monitor_position    *)
(* task per successful open), the event loop's timers, and the orders the  *)
(* gateway has not answered yet.                                           *)
(*                                                                         *)
(* Python's None is the empty tuple, a present value v is <<v>>.           *)
(* Prices are integers.  target_price is kept in hundredths of a price     *)
(* unit, so that entry_price * (1 + p/100) is exact: a bid reaches the     *)
(* target when bid * 100 >= target_price.                                  *)
(***************************************************************************)
EXTENDS Integers, Sequences, FiniteSets

\* ---- bounds -------------------------------------------------------------
\* number of /trade commands the operator issues
MaxTrades == 2
\* number of order requests (Buy and Sell together) sent to the gateway
MaxOrders == 3

\* ---- configuration (environment of the process) ------------------------
TARGET_PROFIT_PERCENT == 1
AMOUNT == 1
SYMBOL == "SYMBOL"

\* price strings the feed can carry at the top of a book side
PriceStrings == {"0", "100", "103", "x"}

\* durations of the waits of the program, in tenths of a second
SleepTick == 1
SleepLong == 10
OpenTimeout == 20
CloseTimeout == 100

None == <<>>
Some(v) == <<v>>

Trades == 1..MaxTrades

VARIABLES
    active_position,       \* None or <<[order_id, symbol, amount, entry_price, target_price]>>
    orderbook_data,        \* [bid, ask], each None or <<price>>
    orderbook_event,       \* asyncio.Event: set or not
    is_subscribed,
    order_response_event,  \* asyncio.Event: set or not
    order_response,        \* None or <<[retCode, orderId]>>
    tpc,                   \* per /trade command: "new", "answer", "sleep", "wait", "done"
    t_orderbook,           \* per /trade command: the local `orderbook` of open_position
    t_outcome,             \* per /trade command: how the command ended
    mpc,                   \* per monitor task: "none", "start", "sleep", "wait", "done"
    m_outcome,             \* per monitor task: how its last close_position ended
    woken,                 \* the waiters whose event.wait() future has been resolved
    entering,              \* the coroutines that have called wait_for and whose inner
                           \* event.wait() has not started yet
    timers,                \* the event loop's timers, earliest deadline first
    orders,                \* history: the order requests sent so far (request n is
                           \* orders[n]) and the retCode the gateway answered, if any
    closing,               \* history, per monitor task: the Position when its pending
                           \* close_position was called
    current_price,         \* per monitor task: the local `current_price` of the tick
                           \* whose close_position is pending, None otherwise
    inflight,              \* requests the gateway has not answered
    notifications,         \* number of send_notification calls
    status_reply           \* the answer of /status sent in the latest step, None if that
                           \* step sent none

vars == <<active_position, orderbook_data, orderbook_event, is_subscribed,
          order_response_event, order_response, tpc, t_orderbook, t_outcome,
          mpc, m_outcome, woken, entering, timers, orders, closing, current_price, inflight,
          notifications, status_reply>>

\* a coroutine: the /trade handler of command k, or the monitor task started by it
T(k) == [kind |-> "trade", id |-> k]
M(k) == [kind |-> "monitor", id |-> k]

\* the coroutines of the event loop
Coroutines == {T(k) : k \in Trades} \cup {M(k) : k \in Trades}

\* ---- Python helpers -------------------------------------------------------
\* truth value of an optional number: None and 0 are false
Truthy(x) == x # None /\ x[1] # 0

\* float(s) for the price strings of the feed; None stands for ValueError
ToFloat(s) ==
    CASE s = "0" -> Some(0)
      [] s = "100" -> Some(100)
      [] s = "103" -> Some(103)
      [] OTHER -> None

\* the percentage added to the entry price instead of applied to it
calculate_target_price_Additive(entry_price) ==
    entry_price * 100 + TARGET_PROFIT_PERCENT

\* target price in hundredths of a price unit
calculate_target_price(entry_price) == entry_price * (100 + TARGET_PROFIT_PERCENT)

\* ---- the event loop's timers ----------------------------------------------
\* A timer started now with duration d expires after every pending timer that
\* was started with a duration of at most d; its order against the longer ones
\* is open.
LastNotLonger(q, d) ==
    LET S == {i \in 1..Len(q) : q[i].dur <= d}
    IN IF S = {} THEN 0 ELSE CHOOSE i \in S : \A j \in S : j <= i

InsertAt(q, e, i) == SubSeq(q, 1, i) \o <<e>> \o SubSeq(q, i + 1, Len(q))

Cancel(q, who) == SelectSeq(q, LAMBDA e : e.who # who)

Due(who) == timers # <<>> /\ timers[1].who = who

\* ---- Init ----------------------------------------------------------------
Init ==
    /\ active_position = None
    /\ orderbook_data = [bid |-> None, ask |-> None]
    /\ orderbook_event = FALSE
    /\ is_subscribed = FALSE
    /\ order_response_event = FALSE
    /\ order_response = None
    /\ tpc = [k \in Trades |-> "new"]
    /\ t_orderbook = [k \in Trades |-> [bid |-> None, ask |-> None]]
    /\ t_outcome = [k \in Trades |-> "none"]
    /\ mpc = [k \in Trades |-> "none"]
    /\ m_outcome = [k \in Trades |-> "none"]
    /\ woken = {}
    /\ entering = {}
    /\ timers = <<>>
    /\ orders = <<>>
    /\ closing = [k \in Trades |-> None]
    /\ current_price = [k \in Trades |-> None]
    /\ inflight = {}
    /\ notifications = 0
    /\ status_reply = None

\* ---- the market feed callback --------------------------------------------
\* One side of the book in a feed message: absent or empty ("missing"), or the
\* price string of its best level.
BookSides == {"missing"} \cup PriceStrings

\* the callback also re-bases an existing Position on the new ask
handle_orderbook_Rebases(b, a) ==
    /\ status_reply' = None
    /\ is_subscribed
    /\ IF b = "missing" \/ a = "missing"
         THEN UNCHANGED <<orderbook_data, orderbook_event, active_position>>
         ELSE IF ToFloat(b) = None \/ ToFloat(a) = None
           THEN UNCHANGED <<orderbook_data, orderbook_event, active_position>>
           ELSE /\ orderbook_data' = [bid |-> ToFloat(b), ask |-> ToFloat(a)]
                /\ orderbook_event' = TRUE
                /\ IF active_position = None
                     THEN UNCHANGED active_position
                     ELSE active_position' =
                            Some([active_position[1] EXCEPT
                                    !.entry_price = ToFloat(a)[1],
                                    !.target_price = calculate_target_price(ToFloat(a)[1])])
    /\ UNCHANGED <<m_outcome, is_subscribed, order_response_event,
                   order_response, tpc, t_orderbook, t_outcome, mpc, woken, entering,
                   timers, orders, inflight, closing, current_price, notifications>>

\* the bid is stored as soon as it is parsed, before the ask is parsed
handle_orderbook_BidFirst(b, a) ==
    /\ status_reply' = None
    /\ is_subscribed
    /\ IF b = "missing" \/ a = "missing"
         THEN UNCHANGED <<orderbook_data, orderbook_event>>
         ELSE IF ToFloat(b) = None
           THEN UNCHANGED <<orderbook_data, orderbook_event>>
           ELSE IF ToFloat(a) = None
             THEN /\ orderbook_data' = [orderbook_data EXCEPT !.bid = ToFloat(b)]
                  /\ UNCHANGED orderbook_event
             ELSE /\ orderbook_data' = [bid |-> ToFloat(b), ask |-> ToFloat(a)]
                  /\ orderbook_event' = TRUE
    /\ UNCHANGED <<m_outcome, active_position, is_subscribed, order_response_event,
                   order_response, tpc, t_orderbook, t_outcome, mpc, woken, entering,
                   timers, orders, inflight, closing, current_price, notifications>>

handle_orderbook(b, a) ==
    /\ status_reply' = None
    /\ is_subscribed
    /\ IF b = "missing" \/ a = "missing"
         THEN UNCHANGED <<orderbook_data, orderbook_event>>
         ELSE IF ToFloat(b) = None \/ ToFloat(a) = None
           THEN UNCHANGED <<orderbook_data, orderbook_event>>
           ELSE /\ orderbook_data' = [bid |-> ToFloat(b), ask |-> ToFloat(a)]
                /\ orderbook_event' = TRUE
    /\ UNCHANGED <<m_outcome, active_position, is_subscribed, order_response_event,
                   order_response, tpc, t_orderbook, t_outcome, mpc, woken, entering,
                   timers, orders, inflight, closing, current_price, notifications>>

\* what a reader of the cache gets: the dict itself
get_order_book == orderbook_data

\* ---- the order confirmation callback -------------------------------------
\* the coroutines that are inside wait_for(order_response_event.wait(), ...)
InWaitFor == {T(k) : k \in {j \in Trades : tpc[j] = "wait"}}
               \cup {M(k) : k \in {j \in Trades : mpc[j] = "wait"}}

\* the coroutines suspended in order_response_event.wait(): wait_for wraps the
\* wait in a task that starts on a later iteration of the event loop
Waiting == InWaitFor \ entering

handle_order_response(message) ==
    /\ order_response' = Some(message)
    /\ order_response_event' = TRUE
    /\ woken' = woken \cup Waiting

\* The gateway answers request r. It echoes the request number as the order
\* id; retCode 0 is success, any other value a rejection.
RetCodes == {0, 1}

GatewayConfirm(r, code) ==
    /\ status_reply' = None
    /\ r \in inflight
    /\ inflight' = inflight \ {r}
    /\ orders' = [orders EXCEPT ![r].retCode = Some(code)]
    /\ handle_order_response([retCode |-> code, orderId |-> r])
    /\ UNCHANGED <<entering, m_outcome, active_position, orderbook_data, orderbook_event,
                   is_subscribed, tpc, t_orderbook, t_outcome, mpc, timers,
                   closing, current_price, notifications>>

\* ---- placing an order and waiting for its confirmation --------------------
\* order_response_event.clear(); ws_private.place_order(side); then
\* wait_for(order_response_event.wait(), timeout) suspends the coroutine.
PlaceAndWait(who, side, timeout, q) ==
    /\ Len(orders) < MaxOrders
    /\ order_response_event' = FALSE
    /\ orders' = Append(orders, [side |-> side, by |-> who, retCode |-> None])
    /\ inflight' = inflight \cup {Len(orders) + 1}
    /\ woken' = woken \ {who}
    /\ entering' = entering \cup {who}
    /\ \E i \in LastNotLonger(q, timeout)..Len(q) :
          timers' = InsertAt(q, [who |-> who, dur |-> timeout], i)

\* The task wait_for made of order_response_event.wait() starts: the wait
\* returns at once if the event is set, else the coroutine becomes a waiter.
wait_begin(who) ==
    /\ status_reply' = None
    /\ who \in entering
    /\ entering' = entering \ {who}
    /\ woken' = IF order_response_event THEN woken \cup {who} ELSE woken
    /\ UNCHANGED <<active_position, orderbook_data, orderbook_event,
                   is_subscribed, order_response_event, order_response, tpc,
                   t_orderbook, t_outcome, mpc, m_outcome, timers, orders,
                   closing, current_price, inflight, notifications>>

\* await asyncio.sleep(d)
Sleep(who, d, q) ==
    \E i \in LastNotLonger(q, d)..Len(q) :
        timers' = InsertAt(q, [who |-> who, dur |-> d], i)

\* the request a coroutine sent last
RequestOf(who) ==
    LET S == {n \in 1..Len(orders) : orders[n].by = who}
    IN IF S = {} THEN 0 ELSE CHOOSE n \in S : \A m \in S : m <= n

\* ---- /trade ---------------------------------------------------------------
NoBook == [bid |-> None, ask |-> None]

\* The handler up to its first suspension: the check of active_position, then
\* the answer it awaits ("A position is already open", after which it returns,
\* or "Opening a position, please wait...").
trade_command(k) ==
    /\ status_reply' = None
    /\ tpc[k] = "new"
    /\ k > 1 => tpc[k - 1] # "new"
    /\ IF active_position # None
         THEN /\ tpc' = [tpc EXCEPT ![k] = "done"]
              /\ t_outcome' = [t_outcome EXCEPT ![k] = "already_open"]
         ELSE /\ tpc' = [tpc EXCEPT ![k] = "answer"]
              /\ UNCHANGED t_outcome
    /\ UNCHANGED <<m_outcome, active_position, orderbook_data, orderbook_event,
                   is_subscribed, order_response_event, order_response,
                   t_orderbook, mpc, woken, entering, timers, orders, inflight,
                   closing, current_price, notifications>>

\* The answer has been sent: open_position is called and runs to its sleep(1).
\* subscribe_to_orderbook subscribes unless is_subscribed; sub_ok tells whether
\* orderbook_stream succeeds. Its exception is re-raised and open_position
\* returns False.
open_position(k, sub_ok) ==
    /\ status_reply' = None
    /\ tpc[k] = "answer"
    /\ is_subscribed => sub_ok
    /\ IF ~sub_ok
         THEN /\ tpc' = [tpc EXCEPT ![k] = "done"]
              /\ t_outcome' = [t_outcome EXCEPT ![k] = "error"]
              /\ UNCHANGED <<is_subscribed, timers>>
         ELSE /\ is_subscribed' = TRUE
              /\ tpc' = [tpc EXCEPT ![k] = "sleep"]
              /\ Sleep(T(k), SleepLong, timers)
              /\ UNCHANGED t_outcome
    /\ UNCHANGED <<m_outcome, active_position, orderbook_data, orderbook_event,
                   order_response_event, order_response, t_orderbook, mpc,
                   woken, entering, orders, inflight, closing, current_price,
                   notifications>>

\* the keys are looked up instead of their values: true of the initial cache
HasMarketData_KeysPresent(orderbook) == DOMAIN orderbook = {"bid", "ask"}

\* `orderbook.get('bid')` and `orderbook.get('ask')` are both true
HasMarketData(orderbook) == Truthy(orderbook.bid) /\ Truthy(orderbook.ask)

\* open_position after sleep(1): no market data
open_no_data(k) ==
    /\ status_reply' = None
    /\ tpc[k] = "sleep"
    /\ Due(T(k))
    /\ ~HasMarketData(orderbook_data)
    /\ timers' = Tail(timers)
    /\ tpc' = [tpc EXCEPT ![k] = "done"]
    /\ t_outcome' = [t_outcome EXCEPT ![k] = "no_market_data"]
    /\ UNCHANGED <<m_outcome, active_position, orderbook_data, orderbook_event,
                   is_subscribed, order_response_event, order_response,
                   t_orderbook, mpc, woken, entering, orders, inflight, closing, current_price, notifications>>

\* open_position after sleep(1): the Buy is sent
open_send(k) ==
    /\ status_reply' = None
    /\ tpc[k] = "sleep"
    /\ Due(T(k))
    /\ HasMarketData(orderbook_data)
    /\ t_orderbook' = [t_orderbook EXCEPT ![k] = orderbook_data]
    /\ PlaceAndWait(T(k), "Buy", OpenTimeout, Tail(timers))
    /\ tpc' = [tpc EXCEPT ![k] = "wait"]
    /\ UNCHANGED <<m_outcome, active_position, orderbook_data, orderbook_event,
                   is_subscribed, order_response, t_outcome, mpc, closing, current_price, notifications>>

\* open_position: the wait timed out
open_timeout(k) ==
    /\ status_reply' = None
    /\ tpc[k] = "wait"
    /\ Due(T(k))
    /\ timers' = Tail(timers)
    /\ woken' = woken \ {T(k)}
    /\ entering' = entering \ {T(k)}
    /\ tpc' = [tpc EXCEPT ![k] = "done"]
    /\ t_outcome' = [t_outcome EXCEPT ![k] = "timeout"]
    /\ t_orderbook' = [t_orderbook EXCEPT ![k] = NoBook]
    /\ UNCHANGED <<m_outcome, active_position, orderbook_data, orderbook_event,
                   is_subscribed, order_response_event, order_response, mpc,
                   orders, inflight, closing, current_price, notifications>>

\* the entry price read from the cache at confirmation time
NewPosition_AskAtConfirmation(response, orderbook) ==
    [order_id |-> response.orderId,
     symbol |-> SYMBOL,
     amount |-> AMOUNT,
     entry_price |-> orderbook_data.ask[1],
     target_price |-> calculate_target_price(orderbook_data.ask[1])]

\* the Position open_position builds from the confirmation and its local orderbook
NewPosition(response, orderbook) ==
    [order_id |-> response.orderId,
     symbol |-> SYMBOL,
     amount |-> AMOUNT,
     entry_price |-> orderbook.ask[1],
     target_price |-> calculate_target_price(orderbook.ask[1])]

\* open_position: the wait returned, order_response is read
open_resume(k) ==
    /\ status_reply' = None
    /\ tpc[k] = "wait"
    /\ T(k) \in woken
    /\ woken' = woken \ {T(k)}
    /\ entering' = entering \ {T(k)}
    /\ timers' = Cancel(timers, T(k))
    /\ tpc' = [tpc EXCEPT ![k] = "done"]
    /\ t_orderbook' = [t_orderbook EXCEPT ![k] = NoBook]
    /\ IF order_response # None /\ order_response[1].retCode = 0
         THEN /\ active_position' = Some(NewPosition(order_response[1], t_orderbook[k]))
              /\ mpc' = [mpc EXCEPT ![k] = "start"]
              /\ t_outcome' = [t_outcome EXCEPT ![k] = "opened"]
         ELSE /\ t_outcome' = [t_outcome EXCEPT ![k] = "rejected"]
              /\ UNCHANGED <<active_position, mpc>>
    /\ UNCHANGED <<m_outcome, orderbook_data, orderbook_event, is_subscribed,
                   order_response_event, order_response, orders, inflight,
                   closing, current_price, notifications>>

\* what open_position returns on each of its paths
open_position_returns(outcome) == outcome = "opened"

\* the text trade_command answers with once it is done
trade_reply(outcome) ==
    IF outcome = "already_open"
      THEN "A position is already open"
      ELSE IF open_position_returns(outcome)
        THEN "Position opened!"
        ELSE "Could not open the position"

\* ---- monitor_position -----------------------------------------------------
\* The task runs its loop test when it is first scheduled and each time one of
\* its sleeps ends.
Runs(k) == mpc[k] = "start" \/ (mpc[k] = "sleep" /\ Due(M(k)))

\* the timers once the sleep that ended (if any) is removed
Woke(k) == IF mpc[k] = "sleep" THEN Tail(timers) ELSE timers

\* `while self.active_position` is false: the task ends
monitor_exit(k) ==
    /\ status_reply' = None
    /\ Runs(k)
    /\ active_position = None
    /\ timers' = Woke(k)
    /\ mpc' = [mpc EXCEPT ![k] = "done"]
    /\ UNCHANGED <<m_outcome, active_position, orderbook_data, orderbook_event,
                   is_subscribed, order_response_event, order_response, tpc,
                   t_orderbook, t_outcome, woken, entering, orders, inflight,
                   closing, current_price, notifications>>

\* a tick that sends no order: no bid (sleep 1 s) or bid below target (sleep 0.1 s)
monitor_idle(k) ==
    /\ status_reply' = None
    /\ Runs(k)
    /\ active_position # None
    /\ \/ /\ ~Truthy(orderbook_data.bid)
          /\ Sleep(M(k), SleepLong, Woke(k))
       \/ /\ Truthy(orderbook_data.bid)
          /\ orderbook_data.bid[1] * 100 < active_position[1].target_price
          /\ Sleep(M(k), SleepTick, Woke(k))
    /\ mpc' = [mpc EXCEPT ![k] = "sleep"]
    /\ UNCHANGED <<m_outcome, active_position, orderbook_data, orderbook_event,
                   is_subscribed, order_response_event, order_response, tpc,
                   t_orderbook, t_outcome, woken, entering, orders, inflight,
                   closing, current_price, notifications>>

\* the bid compared with the entry price instead of the target price
monitor_close_AtEntry(k) ==
    /\ status_reply' = None
    /\ Runs(k)
    /\ active_position # None
    /\ Truthy(orderbook_data.bid)
    /\ orderbook_data.bid[1] >= active_position[1].entry_price
    /\ PlaceAndWait(M(k), "Sell", CloseTimeout, Woke(k))
    /\ mpc' = [mpc EXCEPT ![k] = "wait"]
    /\ closing' = [closing EXCEPT ![k] = active_position]
    /\ current_price' = [current_price EXCEPT ![k] = orderbook_data.bid]
    /\ UNCHANGED <<m_outcome, active_position, orderbook_data, orderbook_event,
                   is_subscribed, order_response, tpc, t_orderbook, t_outcome,
                   notifications>>

\* a tick with bid >= target_price: close_position sends the Sell
monitor_close(k) ==
    /\ status_reply' = None
    /\ Runs(k)
    /\ active_position # None
    /\ Truthy(orderbook_data.bid)
    /\ orderbook_data.bid[1] * 100 >= active_position[1].target_price
    /\ PlaceAndWait(M(k), "Sell", CloseTimeout, Woke(k))
    /\ mpc' = [mpc EXCEPT ![k] = "wait"]
    /\ closing' = [closing EXCEPT ![k] = active_position]
    /\ current_price' = [current_price EXCEPT ![k] = orderbook_data.bid]
    /\ UNCHANGED <<m_outcome, active_position, orderbook_data, orderbook_event,
                   is_subscribed, order_response, tpc, t_orderbook, t_outcome,
                   notifications>>

\* wait_for is called again when it times out, until a confirmation arrives
close_timeout_WaitsAgain(k) ==
    /\ status_reply' = None
    /\ mpc[k] = "wait"
    /\ Due(M(k))
    /\ woken' = woken \ {M(k)}
    /\ entering' = entering \ {M(k)}
    /\ timers' = Append(Tail(timers), [who |-> M(k), dur |-> CloseTimeout])
    /\ UNCHANGED <<active_position, orderbook_data, orderbook_event,
                   is_subscribed, order_response_event, order_response, tpc,
                   t_orderbook, t_outcome, mpc, m_outcome, orders, inflight,
                   closing, current_price, notifications>>

\* the TimeoutError of the close leaves the loop instead of being turned into False
close_timeout_EndsLoop(k) ==
    /\ status_reply' = None
    /\ mpc[k] = "wait"
    /\ Due(M(k))
    /\ woken' = woken \ {M(k)}
    /\ entering' = entering \ {M(k)}
    /\ timers' = Tail(timers)
    /\ mpc' = [mpc EXCEPT ![k] = "done"]
    /\ closing' = [closing EXCEPT ![k] = None]
    /\ current_price' = [current_price EXCEPT ![k] = None]
    /\ m_outcome' = [m_outcome EXCEPT ![k] = "timeout"]
    /\ UNCHANGED <<active_position, orderbook_data, orderbook_event,
                   is_subscribed, order_response_event, order_response, tpc,
                   t_orderbook, t_outcome, orders, inflight, notifications>>

\* close_position: the wait timed out; the loop sleeps 0.1 s
close_timeout(k) ==
    /\ status_reply' = None
    /\ mpc[k] = "wait"
    /\ Due(M(k))
    /\ woken' = woken \ {M(k)}
    /\ entering' = entering \ {M(k)}
    /\ Sleep(M(k), SleepTick, Tail(timers))
    /\ mpc' = [mpc EXCEPT ![k] = "sleep"]
    /\ closing' = [closing EXCEPT ![k] = None]
    /\ current_price' = [current_price EXCEPT ![k] = None]
    /\ m_outcome' = [m_outcome EXCEPT ![k] = "timeout"]
    /\ UNCHANGED <<active_position, orderbook_data, orderbook_event,
                   is_subscribed, order_response_event, order_response, tpc,
                   t_orderbook, t_outcome, orders, inflight, notifications>>

\* x[key] raises TypeError when x is None
Subscriptable(x) == x # None

\* Whether monitor_position gets as far as calling send_notification after a
\* successful close, given self.active_position as close_position left it.
\* The profit computation subscripts it, then the loop stores None in it, then
\* the notification text subscripts it again: either TypeError is caught by the
\* loop's handler, which logs it and sleeps 1 s.
ReportsClose(position) == Subscriptable(position) /\ Subscriptable(None)

\* close_position: the wait returned, order_response is read
close_resume(k) ==
    /\ status_reply' = None
    /\ mpc[k] = "wait"
    /\ M(k) \in woken
    /\ woken' = woken \ {M(k)}
    /\ entering' = entering \ {M(k)}
    /\ mpc' = [mpc EXCEPT ![k] = "sleep"]
    /\ closing' = [closing EXCEPT ![k] = None]
    /\ current_price' = [current_price EXCEPT ![k] = None]
    /\ IF order_response # None /\ order_response[1].retCode = 0
         THEN /\ active_position' = None
              /\ m_outcome' = [m_outcome EXCEPT ![k] = "filled"]
              /\ IF ReportsClose(None)
                   THEN /\ notifications' = notifications + 1
                        /\ Sleep(M(k), SleepTick, Cancel(timers, M(k)))
                   ELSE /\ UNCHANGED notifications
                        /\ Sleep(M(k), SleepLong, Cancel(timers, M(k)))
         ELSE /\ m_outcome' = [m_outcome EXCEPT ![k] = "rejected"]
              /\ Sleep(M(k), SleepTick, Cancel(timers, M(k)))
              /\ UNCHANGED <<active_position, notifications>>
    /\ UNCHANGED <<orderbook_data, orderbook_event, is_subscribed,
                   order_response_event, order_response, tpc, t_orderbook,
                   t_outcome, orders, inflight>>

\* ---- /status --------------------------------------------------------------
\* Line 284 computes in binary64: the quotient, the difference and the product
\* are each rounded to 53 significant bits, a tie going to the even
\* significand, and line 292 prints the product's exact value to two decimals.
\* A significand is the sequence of its binary digits, least significant
\* first and without leading zero, so that no digit is lost to the width of
\* the model's integers.
RECURSIVE Strip(_)
Strip(a) ==
    IF a # <<>> /\ a[Len(a)] = 0 THEN Strip(SubSeq(a, 1, Len(a) - 1)) ELSE a

Bit(a, i) == IF i >= 1 /\ i <= Len(a) THEN a[i] ELSE 0

RECURSIVE BitsOf(_)
BitsOf(n) == IF n = 0 THEN <<>> ELSE <<n % 2>> \o BitsOf(n \div 2)

RECURSIVE ValueOf(_)
ValueOf(a) == IF a = <<>> THEN 0 ELSE a[1] + 2 * ValueOf(Tail(a))

\* the digits from the i-th on of a + b, with carry c
RECURSIVE AddFrom(_, _, _, _)
AddFrom(a, b, i, c) ==
    IF i > Len(a) /\ i > Len(b)
      THEN IF c = 1 THEN <<1>> ELSE <<>>
      ELSE LET x == Bit(a, i) + Bit(b, i) + c
           IN <<x % 2>> \o AddFrom(a, b, i + 1, x \div 2)

Add(a, b) == AddFrom(a, b, 1, 0)

\* the digits from the i-th on of a - b (a >= b), with borrow c
RECURSIVE SubFrom(_, _, _, _)
SubFrom(a, b, i, c) ==
    IF i > Len(a)
      THEN <<>>
      ELSE LET x == Bit(a, i) - Bit(b, i) - c
           IN <<(x + 2) % 2>> \o SubFrom(a, b, i + 1, IF x < 0 THEN 1 ELSE 0)

Sub(a, b) == Strip(SubFrom(a, b, 1, 0))

Shl(a, k) == IF a = <<>> THEN <<>> ELSE [i \in 1..k |-> 0] \o a

Pow2(k) == [i \in 1..k |-> 0] \o <<1>>

Mul100(a) == Add(Add(Shl(a, 6), Shl(a, 5)), Shl(a, 2))

\* a, with the value below its last digit non-zero iff sticky, rounded to 53
\* significant digits: the digits kept, and how many were dropped
Round53(a, sticky) ==
    LET m == Len(a) - 53
    IN IF m <= 0
         THEN [bits |-> a, dropped |-> 0]
         ELSE LET kept == SubSeq(a, m + 1, Len(a))
                  up == /\ a[m] = 1
                        /\ \/ sticky
                           \/ \E i \in 1..(m - 1) : a[i] = 1
                           \/ kept[1] = 1
              IN [bits |-> IF up THEN Add(kept, <<1>>) ELSE kept,
                  dropped |-> m]

\* long division: the first 54 significant digits of the quotient whose
\* digits so far are bits and whose remainder is rem, the number s of them
\* after the binary point, and whether a remainder is left
RECURSIVE DivBits(_, _, _, _)
DivBits(rem, d, bits, s) ==
    IF Len(bits) >= 54
      THEN [bits |-> bits, scale |-> s, sticky |-> rem # 0]
      ELSE LET b == IF 2 * rem >= d THEN 1 ELSE 0
           IN DivBits(2 * rem - d * b, d,
                      IF bits # <<>> \/ b = 1 THEN <<b>> \o bits ELSE bits,
                      s + 1)

Abs(n) == IF n < 0 THEN -n ELSE n

\* ((price / entry_price) - 1) * 100 as binary64 computes it, printed :.2f,
\* in hundredths of a percent
Binary64Profit(price, entry_price) ==
    IF price = 0
      THEN -10000
      ELSE
        LET p == Abs(price)
            d == Abs(entry_price)
            negative == (price < 0) # (entry_price < 0)
            \* price / entry_price
            n == DivBits(p % d, d, BitsOf(p \div d), 0)
            q == Round53(n.bits, n.sticky)
            s1 == n.scale - q.dropped
            \* ... - 1
            below == negative \/ Len(q.bits) < s1 + 1
            diff == IF negative THEN Add(q.bits, Pow2(s1))
                    ELSE IF below THEN Sub(Pow2(s1), q.bits)
                    ELSE Sub(q.bits, Pow2(s1))
            m == Round53(diff, FALSE)
            s2 == s1 - m.dropped
            \* ... * 100
            r == Round53(Mul100(m.bits), FALSE)
            s3 == s2 - r.dropped
            \* :.2f
            h == Mul100(r.bits)
            whole == ValueOf(SubSeq(h, s3 + 1, Len(h)))
            up == /\ Bit(h, s3) = 1
                  /\ \/ \E i \in 1..(s3 - 1) : Bit(h, i) = 1
                     \/ whole % 2 = 1
            v == IF s3 <= 0 THEN ValueOf(Shl(h, -s3))
                 ELSE IF up THEN whole + 1 ELSE whole
        IN IF below THEN -v ELSE v

\* f"{((price / entry_price) - 1) * 100:.2f}" in hundredths of a percent.
\* The three roundings move the product by less than 2^-50 of its value, and
\* an exact profit that is not half-way between two hundredths is at least
\* 1 / (2 * entry_price) of a hundredth away from half-way: the printed value
\* is then the hundredth nearest to the exact profit. Half-way, the roundings
\* decide.
ProfitPercent(price, entry_price) ==
    LET s == IF entry_price < 0 THEN -1 ELSE 1
        n == (price - entry_price) * 10000 * s
        d == entry_price * s
        fl == n \div d
        r == n - fl * d
    IN IF 2 * r = d THEN Binary64Profit(price, entry_price)
       ELSE IF 2 * r > d THEN fl + 1
       ELSE fl

\* monitor_position after a successful close: the profit computed from the
\* cache and self.active_position as they are then; None stands for the
\* TypeError of subscripting None
profit_percentage(orderbook, position) ==
    IF Subscriptable(position) /\ Subscriptable(orderbook.bid)
      THEN Some(ProfitPercent(orderbook.bid[1], position[1].entry_price))
      ELSE None

\* the answer of the /status handler in the current state
status_command ==
    IF active_position # None
      THEN IF ~Truthy(orderbook_data.bid)
             THEN [text |-> "cannot_get_price"]
             ELSE [text |-> "current_position",
                   symbol |-> active_position[1].symbol,
                   entry_price |-> active_position[1].entry_price,
                   target_price |-> active_position[1].target_price,
                   current_price |-> orderbook_data.bid[1],
                   profit |-> ProfitPercent(orderbook_data.bid[1],
                                            active_position[1].entry_price)]
      ELSE [text |-> "no_open_position"]

\* The handler reads the state and answers; it assigns nothing. Its answer is
\* not recorded here.
Status == UNCHANGED vars

\* the handler clears orderbook_event so as to wait for a fresh quote
status_answer_ClearsEvent ==
    /\ status_reply' = Some(status_command)
    /\ orderbook_event' = FALSE
    /\ UNCHANGED <<active_position, orderbook_data, is_subscribed,
                   order_response_event, order_response, tpc, t_orderbook,
                   t_outcome, mpc, m_outcome, woken, entering, timers, orders, closing,
                   current_price, inflight, notifications>>

\* The handler with its answer recorded: it runs to `await message.answer(...)`
\* without suspending, reads the Position and the cache, and sends the answer;
\* it assigns nothing of the bot.
status_answer ==
    /\ status_reply' = Some(status_command)
    /\ UNCHANGED <<active_position, orderbook_data, orderbook_event,
                   is_subscribed, order_response_event, order_response, tpc,
                   t_orderbook, t_outcome, mpc, m_outcome, woken, entering,
                   timers, orders, closing, current_price, inflight,
                   notifications>>

\* ---- Next -----------------------------------------------------------------
Feed == \E b \in BookSides, a \in BookSides : handle_orderbook(b, a)

Gateway == \E r \in 1..MaxOrders, code \in RetCodes : GatewayConfirm(r, code)

Trade ==
    \E k \in Trades :
        \/ trade_command(k)
        \/ \E sub_ok \in BOOLEAN : open_position(k, sub_ok)
        \/ wait_begin(T(k))
        \/ open_no_data(k)
        \/ open_send(k)
        \/ open_timeout(k)
        \/ open_resume(k)

Monitor ==
    \E k \in Trades :
        \/ monitor_exit(k)
        \/ monitor_idle(k)
        \/ monitor_close(k)
        \/ wait_begin(M(k))
        \/ close_timeout(k)
        \/ close_resume(k)

Next == Feed \/ Gateway \/ Trade \/ Monitor \/ Status

Spec == Init /\ [][Next]_vars

\* The program with the answers of /status recorded: a /status step is then a
\* step that changes the state, and every other step is as in Spec.
StatusNext == Feed \/ Gateway \/ Trade \/ Monitor \/ status_answer

StatusSpec == Init /\ [][StatusNext]_vars

\* The event loop resumes a coroutine suspended in wait_for: the inner wait
\* starts on the next iteration, a resolved wait returns, and the timeout
\* fires when its deadline is reached. A timeout is overtaken by finitely many
\* shorter sleeps only, so a wait whose continuation is enabled again and
\* again is eventually continued. The wait of a monitor begins after the wait
\* of the /trade handler that created it has ended, so the two are one chain
\* of steps, of which one at most is enabled at a time. Nothing obliges the
\* feed, the gateway or the user to act, nor a monitor to poll at any
\* particular moment.
Fairness ==
    \A k \in Trades :
        SF_vars(\/ wait_begin(T(k)) \/ open_timeout(k) \/ open_resume(k)
                \/ wait_begin(M(k)) \/ close_timeout(k) \/ close_resume(k))

\* Time advances: a pending sleep or timeout does not stay behind newer,
\* shorter ones for ever. It comes to the head of the timers again and again
\* until it fires or is cancelled. (A run in which MaxOrders requests have been
\* sent and the coroutine at the head of the timers can only send another one
\* for ever is a run of the model only: the program sends the request.)
TimeAdvances ==
    \A who \in Coroutines :
        []<>(\/ \A i \in 1..Len(timers) : timers[i].who # who
             \/ Due(who))

LiveSpec == Spec /\ Fairness /\ TimeAdvances

\* ==== Claims ================================================================

\* steps of the coroutines, told by their program counters and outcomes
TradeArrives(k) == tpc[k] = "new" /\ tpc'[k] # "new"
OpenReturns(k) == tpc[k] = "wait" /\ tpc'[k] = "done"
OpenDecides(k) == OpenReturns(k) /\ t_outcome'[k] \in {"opened", "rejected"}
CloseReturns(k) == mpc[k] = "wait" /\ mpc'[k] = "sleep"
CloseDecides(k) == CloseReturns(k) /\ m_outcome'[k] \in {"filled", "rejected"}
CloseFails(k) == CloseReturns(k) /\ m_outcome'[k] \in {"rejected", "timeout"}

\* Open, Closing (a Position exists) or Opening (an open_position call has not returned)
Active == active_position # None \/ \E j \in Trades : tpc[j] \in {"sleep", "wait"}

\* C1: a /trade request that arrives while a position is Open, Opening or
\* Closing fails as "already open" and sends no Buy, and no step replaces an
\* existing Position by another one.
C1_OpenWhileActiveFails ==
    [][/\ \A k \in Trades :
            (TradeArrives(k) /\ Active)
                => (tpc'[k] = "done" /\ t_outcome'[k] = "already_open")
       /\ (active_position # None /\ active_position' # None)
                => active_position' = active_position]_vars

\* C2: whenever open_position or close_position decides Filled or Rejected,
\* the confirmation it reads in order_response is the gateway's answer to the
\* request that this call sent.
C2_ReadsOwnConfirmation ==
    [][\A k \in Trades :
          /\ OpenDecides(k) => order_response[1].orderId = RequestOf(T(k))
          /\ CloseDecides(k) => order_response[1].orderId = RequestOf(M(k))]_vars

\* C3: whenever a Sell of the monitoring loop is confirmed with success,
\* send_notification is called for that close, the Position is cleared and the
\* state is Idle.
C3_SuccessfulCloseNotifies ==
    [][\A k \in Trades :
          (CloseReturns(k) /\ m_outcome'[k] = "filled")
              => /\ notifications' = notifications + 1
                 /\ active_position' = None]_vars

\* a monitor tick that finds a Position and a bid at or above its target
TickAtTarget(k) ==
    /\ Runs(k)
    /\ mpc'[k] # mpc[k]
    /\ active_position # None
    /\ Truthy(orderbook_data.bid)
    /\ orderbook_data.bid[1] * 100 >= active_position[1].target_price

SellSent == /\ Len(orders') = Len(orders) + 1
            /\ orders'[Len(orders')].side = "Sell"

\* C4: when close_position ends with a rejection or a timeout, the Position is
\* the one that existed when the close was issued (it still exists, with the
\* same order_id, entry_price and target_price), the monitoring task goes on
\* (it sleeps and ticks again), and a tick with bid >= target_price sends a Sell.
C4_FailedCloseKeepsPosition ==
    [][\A k \in Trades :
          /\ CloseFails(k)
                => /\ active_position' # None
                   /\ active_position' = closing[k]
                   /\ mpc'[k] = "sleep"
          /\ TickAtTarget(k) => (mpc'[k] = "wait" /\ SellSent)]_vars

\* the gateway's answer to the request a coroutine sent last, None if none yet
OwnAnswer(who) == orders[RequestOf(who)].retCode

\* C5: an open_position whose Buy the gateway rejected, or whose wait timed
\* out, returns failure, leaves no Position and starts no monitoring task; and
\* the confirmation callback itself never changes the Position or the tasks.
C5_FailedOpenLeavesIdle ==
    [][/\ \A k \in Trades :
            (/\ OpenReturns(k)
             /\ \/ t_outcome'[k] = "timeout"
                \/ (OwnAnswer(T(k)) # None /\ OwnAnswer(T(k)) # Some(0)))
                => /\ t_outcome'[k] \in {"timeout", "rejected"}
                   /\ active_position' = None
                   /\ mpc'[k] = "none"
       /\ (\E r \in 1..MaxOrders, code \in RetCodes : GatewayConfirm(r, code))
                => (active_position' = active_position /\ mpc' = mpc)]_vars

\* C6: when open_position reads a Quote Cache with no bid or no ask received
\* yet, it fails with "no market data", sends no order request and no Position
\* exists afterwards (and no monitoring task is started).
C6_NoMarketDataNoOrder ==
    [][\A k \in Trades :
          (/\ tpc[k] = "sleep"
           /\ tpc'[k] # "sleep"
           /\ (orderbook_data.bid = None \/ orderbook_data.ask = None))
              => /\ tpc'[k] = "done"
                 /\ t_outcome'[k] = "no_market_data"
                 /\ orders' = orders
                 /\ inflight' = inflight
                 /\ active_position' = None
                 /\ mpc'[k] = "none"]_vars

\* an open_position has failed for lack of market data while the cache is unset
C6_Witness ==
    \E k \in Trades :
        /\ t_outcome[k] = "no_market_data"
        /\ orderbook_data.bid = None
        /\ \A n \in 1..Len(orders) : orders[n].by # T(k)

\* C7: at most one open_position/close_position call has sent its request and
\* is still suspended waiting for the confirmation.
C7_OneOrderInFlight == Cardinality(InWaitFor \ woken) <= 1

\* C8: the local orderbook of open_position is the cache as it was when the Buy
\* was sent, and the entry price of the Position it creates is the ask of that
\* local orderbook, whatever the cache holds at confirmation time.
C8_EntryIsAskAtRequest ==
    [][\A k \in Trades :
          /\ (tpc[k] = "sleep" /\ tpc'[k] = "wait")
                => t_orderbook'[k] = orderbook_data
          /\ (OpenReturns(k) /\ t_outcome'[k] = "opened")
                => /\ active_position' # None
                   /\ active_position'[1].entry_price = t_orderbook[k].ask[1]]_vars

\* a Buy is confirmed with success and about to be read while the cached ask
\* differs from the ask read before the Buy was sent
C8_Witness ==
    \E k \in Trades :
        /\ tpc[k] = "wait"
        /\ T(k) \in woken
        /\ order_response[1].retCode = 0
        /\ orderbook_data.ask # t_orderbook[k].ask

\* C9: a Position, when it exists, has target_price = entry_price * (1 + p/100)
\* (in hundredths: entry_price * (100 + p)); and the Position changes only when
\* a successful open creates it or a successful close clears it: no quote
\* update, confirmation, status request or failed close changes it.
C9_TargetFixedAtCreation ==
    [][/\ active_position' # None
            => active_position'[1].target_price
                 = active_position'[1].entry_price * (100 + TARGET_PROFIT_PERCENT)
       /\ active_position' # active_position
            => \E k \in Trades :
                  \/ (OpenReturns(k) /\ t_outcome'[k] = "opened")
                  \/ (CloseReturns(k) /\ m_outcome'[k] = "filled"
                        /\ active_position' = None)]_vars

\* a Position has survived a failed close and a later quote update
C9_Witness ==
    /\ active_position # None
    /\ \E k \in Trades : m_outcome[k] \in {"rejected", "timeout"}
    /\ orderbook_data.ask # Some(active_position[1].entry_price)
    /\ order_response # None

\* a side of a feed message that is missing or carries a non-positive price
NonPositive(side) ==
    side = "missing" \/ (ToFloat(side) # None /\ ToFloat(side)[1] <= 0)

\* C10: a quote update whose bid or ask is missing or non-positive leaves the
\* cached quote unchanged.
C10_NonPositiveQuoteDiscarded ==
    [][\A b \in BookSides, a \in BookSides :
          (handle_orderbook(b, a) /\ (NonPositive(b) \/ NonPositive(a)))
              => orderbook_data' = orderbook_data]_vars

\* the price strings that parse as numbers
Numerals == {s \in PriceStrings : ToFloat(s) # None}

\* C11: what a reader gets from the cache is unset on both sides or set on
\* both; it changes only in a step of the feed callback on a message whose two
\* sides parse, which replaces it by the (bid, ask) pair of that one message;
\* and a message with a missing side, or one that fails while being parsed,
\* leaves it as it was.
C11_QuoteIsOneUpdatePair ==
    [][/\ (get_order_book'.bid = None) <=> (get_order_book'.ask = None)
       /\ \A b \in Numerals, a \in Numerals :
             \/ get_order_book' = [bid |-> ToFloat(b), ask |-> ToFloat(a)]
             \/ ~handle_orderbook(b, a)
       /\ \/ get_order_book' = get_order_book
          \/ /\ \E b \in Numerals, a \in Numerals : handle_orderbook(b, a)
             /\ \A b \in BookSides, a \in BookSides :
                   (b \in Numerals /\ a \in Numerals) \/ ~handle_orderbook(b, a)]_vars

\* a monitoring task is about to read a cache that holds a pair with bid # ask
C11_Witness ==
    /\ get_order_book.bid = Some(103)
    /\ get_order_book.ask = Some(100)
    /\ \E k \in Trades : mpc[k] = "sleep"

\* C12: every step that sends a Sell is a tick of a monitoring task that finds,
\* in that step, a Position and a cached bid at or above its target_price, and
\* the Sell is that task's request.
C12_SellOnlyAtTarget ==
    [][SellSent
          => \E k \in Trades :
                /\ TickAtTarget(k)
                /\ mpc'[k] = "wait"
                /\ orders'[Len(orders')].by = M(k)]_vars

\* a Sell has been sent and a monitoring task is in its 0.1 s sleep between ticks
C12_Witness ==
    \E n \in 1..Len(orders) :
        /\ orders[n].side = "Sell"
        /\ \E i \in 1..Len(timers) : timers[i].dur = SleepTick

\* the cached bid is at or above the target of the Position
AtTarget ==
    /\ active_position # None
    /\ Truthy(orderbook_data.bid)
    /\ orderbook_data.bid[1] * 100 >= active_position[1].target_price

\* C13: when the gateway has confirmed the Sell of a close_position call with
\* success while that call was waiting, the bid still being at or above the
\* target, the call that reads a confirmation clears the Position: the state is
\* Idle once it returns, so a Position whose Sell is confirmed is eventually
\* cleared.
C13_ConfirmedSellClears ==
    [][\A k \in Trades :
          (/\ CloseDecides(k)
           /\ AtTarget
           /\ OwnAnswer(M(k)) = Some(0))
              => active_position' = None]_vars

\* C14: when a close succeeds, the profit percentage the monitoring loop
\* computes is that of the bid the tick read before it sent the Sell, against
\* the entry price of the Position being closed, whatever the cache holds when
\* the confirmation is read.
C14_ProfitFromBidBeforeSell ==
    [][\A k \in Trades :
          (CloseReturns(k) /\ m_outcome'[k] = "filled")
              => profit_percentage(orderbook_data', active_position')
                   = Some(ProfitPercent(current_price[k][1],
                                        closing[k][1].entry_price))]_vars

\* the state of the bot: everything but the answer of /status
bot == <<active_position, orderbook_data, orderbook_event, is_subscribed,
         order_response_event, order_response, tpc, t_orderbook, t_outcome,
         mpc, m_outcome, woken, entering, timers, orders, closing,
         current_price, inflight, notifications>>

\* C15: a /status request changes nothing: every step that sends an answer of
\* /status leaves the Position, the cached quote, the events, the stored
\* confirmation and every pending wait as they were, and the answer is the one
\* the state determines (entry price, target price, current bid and profit when
\* a Position exists, "no open position" otherwise); a request answered right
\* after another, with no step in between, gets the same answer.
C15_StatusReadsOnly ==
    [][status_reply' # None
          => /\ bot' = bot
             /\ status_reply' = Some(status_command)
             /\ status_command' = status_command
             /\ status_reply # None => status_reply' = status_reply]_vars

\* /status has answered with a Position whose current bid differs from its
\* entry price, while a close_position is waiting for its confirmation
C15_Witness ==
    /\ status_reply # None
    /\ status_reply[1].text = "current_position"
    /\ status_reply[1].profit # 0
    /\ \E k \in Trades : mpc[k] = "wait"

\* the ways a /trade command fails
FailureKinds == {"already_open", "no_market_data", "rejected", "timeout"}

\* C16: two /trade commands that failed in different ways (a position already
\* open, no market data, a rejection by the gateway, a confirmation timeout)
\* were answered with different texts.
C16_FailureKindsDistinct ==
    \A j \in Trades, k \in Trades :
        (/\ t_outcome[j] \in FailureKinds
         /\ t_outcome[k] \in FailureKinds
         /\ t_outcome[j] # t_outcome[k])
            => trade_reply(t_outcome[j]) # trade_reply(t_outcome[k])

\* the monitoring tasks that have been started and have not ended
Monitoring == {k \in Trades : mpc[k] \in {"start", "sleep", "wait"}}

\* C17: in every state in which a Position exists a monitoring task is alive,
\* and a monitoring task ends only at a loop test that finds no Position: a
\* missing quote, a rejected or timed-out close, or the exception raised while
\* reporting a close, ends in a sleep and another tick.
C17_MonitoredWhileOpen ==
    [][/\ active_position' # None => Monitoring' # {}
       /\ \A k \in Trades :
             (k \in Monitoring /\ k \notin Monitoring')
                => (Runs(k) /\ active_position = None)]_vars

\* a Position exists after a failed close, the cached bid is unusable, and the
\* task whose close failed is asleep before its next tick
C17_Witness ==
    \E k \in Trades :
        /\ active_position # None
        /\ m_outcome[k] \in {"rejected", "timeout"}
        /\ ~Truthy(orderbook_data.bid)
        /\ mpc[k] = "sleep"
        /\ Monitoring = {k}

\* C18: the Position changes only in the step in which an open_position
\* stores it after a successful confirmation or a close_position clears it
\* after one; the feed callback and the confirmation callback leave it as it
\* is; and the cached quote changes only in a step of the feed callback.
C18_SingleWriters ==
    [][/\ (Feed \/ Gateway) => active_position' = active_position
       /\ active_position' # active_position
            => \E k \in Trades :
                  \/ (OpenReturns(k) /\ t_outcome'[k] = "opened"
                        /\ active_position' # None)
                  \/ (CloseReturns(k) /\ m_outcome'[k] = "filled"
                        /\ active_position' = None)
       /\ orderbook_data' # orderbook_data
            => /\ \E b \in PriceStrings, a \in PriceStrings : handle_orderbook(b, a)
               /\ <<tpc, mpc, orders>>' = <<tpc, mpc, orders>>]_vars

\* a Position exists; since it was created the feed has stored another ask and
\* the gateway has delivered the confirmation of another request
C18_Witness ==
    /\ active_position # None
    /\ orderbook_data.ask # Some(active_position[1].entry_price)
    /\ order_response # None
    /\ order_response[1].orderId # active_position[1].order_id

\* C19: an open_position that has sent its Buy and waits for the confirmation
\* eventually returns, and so does a close_position that has sent its Sell,
\* whether or not the gateway ever answers: no coroutine stays in its wait for
\* ever.
C19_WaitsEnd ==
    \A k \in Trades :
        /\ []<>(tpc[k] # "wait")
        /\ []<>(mpc[k] # "wait")

\* an open_position and a close_position have returned on their timeouts while
\* the gateway has answered neither request
C19_Witness ==
    \E j \in Trades, k \in Trades :
        /\ t_outcome[j] = "timeout"
        /\ RequestOf(T(j)) \in inflight
        /\ m_outcome[k] = "timeout"
        /\ mpc[k] = "sleep"
        /\ RequestOf(M(k)) \in inflight

\* C20: at most one monitoring task is alive at any time: the task started for
\* one Position has ended before an open_position starts another.
C20_OneMonitoringTask == Cardinality(Monitoring) <= 1

====
